---- MODULE Spec2Model ----
(***************************************************************************)
(* Model of the PubMed author tracker (src/src/script.py): the incremental *)
(* sync run of main(), the retrying http_get(), the candidate filter of    *)
(* efetch_details() and build_search_name().                               *)
(*                                                                         *)
(* A string is a sequence of one-character strings; a date is a day number;*)
(* a time is a number of ticks, TicksPerDay ticks to the day.              *)
(***************************************************************************)
EXTENDS Integers, Sequences, FiniteSets, TLC

\* ------------------------------------------------------------------------
\* Bounds of the model
\* ------------------------------------------------------------------------
MaxClock == 2
TicksPerDay == 2
MaxNameLen == 7
MaxFieldLen == 2
MaxKeywordLen == 2

\* ------------------------------------------------------------------------
\* Strings
\* ------------------------------------------------------------------------
Uppers == <<"A","B","C","D","E","F","G","H","I","J","K","L","M",
            "N","O","P","Q","R","S","T","U","V","W","X","Y","Z">>
Lowers == <<"a","b","c","d","e","f","g","h","i","j","k","l","m",
            "n","o","p","q","r","s","t","u","v","w","x","y","z">>

\* str.lower() on one character
LowerChar(c) ==
    IF \E k \in 1..26 : Uppers[k] = c
    THEN Lowers[CHOOSE k \in 1..26 : Uppers[k] = c]
    ELSE c

\* str.lower()
Lower(s) == [k \in 1..Len(s) |-> LowerChar(s[k])]

IsSpace(c) == c = " "

\* str.strip()
RECURSIVE LStrip(_)
LStrip(s) == IF s # <<>> /\ IsSpace(Head(s)) THEN LStrip(Tail(s)) ELSE s

RECURSIVE RStrip(_)
RStrip(s) ==
    IF s # <<>> /\ IsSpace(s[Len(s)]) THEN RStrip(SubSeq(s, 1, Len(s) - 1)) ELSE s

Strip(s) == RStrip(LStrip(s))

\* str.split(): the maximal runs of non-whitespace characters, in order
RECURSIVE SplitFrom(_, _, _)
SplitFrom(s, cur, acc) ==
    IF s = <<>>
    THEN IF cur = <<>> THEN acc ELSE Append(acc, cur)
    ELSE IF IsSpace(Head(s))
         THEN SplitFrom(Tail(s), <<>>, IF cur = <<>> THEN acc ELSE Append(acc, cur))
         ELSE SplitFrom(Tail(s), Append(cur, Head(s)), acc)

Split(s) == SplitFrom(s, <<>>, <<>>)

\* s.startswith(p)
StartsWith(s, p) == Len(p) <= Len(s) /\ SubSeq(s, 1, Len(p)) = p

\* sub in s
Contains(s, sub) ==
    \E k \in 0..(Len(s) - Len(sub)) : SubSeq(s, k + 1, k + Len(sub)) = sub

\* sep.join(parts)
RECURSIVE Join(_, _)
Join(sep, parts) ==
    IF parts = <<>> THEN <<>>
    ELSE IF Len(parts) = 1 THEN parts[1]
    ELSE parts[1] \o sep \o Join(sep, Tail(parts))

\* ------------------------------------------------------------------------
\* build_search_name(full_name): the result, or ValueError when it raises
\* ------------------------------------------------------------------------
ValueError == <<"ValueError">>

\* a builder that takes an initial from every middle token
build_search_name_all_middles(full_name) ==
    LET parts == Split(Strip(full_name)) IN
    IF Len(parts) < 2 THEN ValueError
    ELSE parts[Len(parts)] \o <<" ">> \o
         [k \in 1..(Len(parts) - 1) |-> parts[k][1]]

build_search_name(full_name) ==
    LET parts == Split(Strip(full_name)) IN
    IF Len(parts) < 2 THEN ValueError
    ELSE LET first == parts[1]
             middle == SubSeq(parts, 2, Len(parts) - 1)
             last == parts[Len(parts)]
             initials == IF middle # <<>>
                         THEN <<first[1], middle[1][1]>>
                         ELSE <<first[1]>>
         IN last \o <<" ">> \o initials

\* ------------------------------------------------------------------------
\* efetch_details: the candidate filter applied to one PubmedArticle
\* ------------------------------------------------------------------------
\* An article is [pmid, affTexts, authors, title, journal, pub_year, doi]:
\* affTexts holds the text of each Affiliation element (<<>> when it has
\* none), authors the [LastName, ForeName, Initials] texts of each Author.

\* _text(node)
Text(t) == Strip(t)

\* affs: the stripped text of every Affiliation element that has text
RECURSIVE ArticleAffs(_)
ArticleAffs(affTexts) ==
    IF affTexts = <<>> THEN <<>>
    ELSE IF Head(affTexts) # <<>>
         THEN <<Strip(Head(affTexts))>> \o ArticleAffs(Tail(affTexts))
         ELSE ArticleAffs(Tail(affTexts))

\* a test that takes an empty keyword list for "any affiliation"
AffiliationMatchOpen(affiliations, affs) ==
    \/ affiliations = <<>>
    \/ \E k \in 1..Len(affiliations) : \E j \in 1..Len(affs) :
          Contains(Lower(affs[j]), Lower(affiliations[k]))

\* any(kw.lower() in aff.lower() for kw in affiliations for aff in affs)
AffiliationMatch(affiliations, affs) ==
    \E k \in 1..Len(affiliations) : \E j \in 1..Len(affs) :
        Contains(Lower(affs[j]), Lower(affiliations[k]))

\* tracked_initials
TrackedInitials(parts) ==
    IF Len(parts) > 2 THEN <<parts[1][1], parts[2][1]>> ELSE <<parts[1][1]>>

\* a test with the two prefix tests turned around
AuthorEntryMatchSwapped(a, parts) ==
    LET last == Lower(Text(a.LastName))
        fore == Lower(Text(a.ForeName))
        init == Lower(Text(a.Initials))
    IN  /\ last = parts[Len(parts)]
        /\ \/ init # <<>> /\ StartsWith(TrackedInitials(parts), init)
           \/ init = <<>> /\ StartsWith(parts[1], fore)

\* the test of one Author element against the tracked author
AuthorEntryMatch(a, parts) ==
    LET last == Lower(Text(a.LastName))
        fore == Lower(Text(a.ForeName))
        init == Lower(Text(a.Initials))
    IN  /\ last = parts[Len(parts)]
        /\ \/ StartsWith(init, TrackedInitials(parts))
           \/ init = <<>> /\ StartsWith(fore, parts[1])

\* author_match
AuthorMatch(authors, full_name) ==
    LET parts == Split(Lower(full_name)) IN
    \E k \in 1..Len(authors) : AuthorEntryMatch(authors[k], parts)

\* author_names
RECURSIVE AuthorNames(_)
AuthorNames(authors) ==
    IF authors = <<>> THEN <<>>
    ELSE LET last == Lower(Text(Head(authors).LastName))
             init == Lower(Text(Head(authors).Initials))
         IN (IF last # <<>> THEN <<Strip(last \o <<" ">> \o init)>> ELSE <<>>)
            \o AuthorNames(Tail(authors))

\* a filter that rejects every article without a matching affiliation
DecideStrict(article, full_name, affiliations) ==
    IF ~AffiliationMatch(affiliations, ArticleAffs(article.affTexts))
    THEN "AFFILIATION_MISMATCH"
    ELSE IF ~AuthorMatch(article.authors, full_name)
         THEN "AUTHOR_MISMATCH"
         ELSE "ACCEPTED"

\* the outcome of the filter for one article
Decide(article, full_name, affiliations) ==
    LET affs == ArticleAffs(article.affTexts) IN
    IF ~AffiliationMatch(affiliations, affs) /\ affs # <<>>
    THEN "AFFILIATION_MISMATCH"
    ELSE IF ~AuthorMatch(article.authors, full_name)
         THEN "AUTHOR_MISMATCH"
         ELSE "ACCEPTED"

\* the row appended for an accepted article
MakeRow(article) ==
    [pmid |-> Text(article.pmid),
     title |-> Text(article.title),
     journal |-> Text(article.journal),
     pub_year |-> Text(article.pub_year),
     doi |-> Text(article.doi),
     authors |-> Join(<<";", " ">>, AuthorNames(article.authors)),
     pubmed_url |-> <<"https://pubmed.ncbi.nlm.nih.gov/">> \o Text(article.pmid) \o <<"/">>]

\* the rows one parsed chunk contributes, in document order
RECURSIVE ChunkRows(_, _, _)
ChunkRows(articles, full_name, affiliations) ==
    IF articles = <<>> THEN <<>>
    ELSE (IF Decide(Head(articles), full_name, affiliations) = "ACCEPTED"
          THEN <<MakeRow(Head(articles))>> ELSE <<>>)
         \o ChunkRows(Tail(articles), full_name, affiliations)

\* ------------------------------------------------------------------------
\* Time helpers
\* ------------------------------------------------------------------------
LookbackDays == 30

\* a format that keeps the date only
isoformat_date(t) == <<t \div TicksPerDay, 0>>

\* datetime.isoformat(): the text <<date, time of day>> of a time
isoformat(t) == <<t \div TicksPerDay, t % TicksPerDay>>

\* iso_to_utc_dt(iso_str)
iso_to_utc_dt(iso) == iso[1] * TicksPerDay + iso[2]

\* ymd(dt_utc)
ymd(t) == t \div TicksPerDay

\* ------------------------------------------------------------------------
\* Persisted state file
\* ------------------------------------------------------------------------
NoFile == [exists |-> FALSE]

\* the text of a JSON null / empty last_run_utc
Null == <<>>

\* A JSON text is the sequence of its tokens; the white space that indent=2
\* adds between them is layout only and is left out.
JsonToken(kind, val) == [tok |-> kind, val |-> val]

\* the tokens of a list of strings
RECURSIVE JsonItems(_)
JsonItems(list) ==
    IF list = <<>> THEN <<>>
    ELSE IF Len(list) = 1 THEN <<JsonToken("string", Head(list))>>
    ELSE <<JsonToken("string", Head(list)), JsonToken(",", <<>>)>>
         \o JsonItems(Tail(list))

\* json.dump(state, f, indent=2, sort_keys=True): the members in the order
\* of their keys, None as null
json_dumps(state) ==
    << JsonToken("{", <<>>),
       JsonToken("key", "last_run_utc"), JsonToken(":", <<>>),
       IF state.last_run_utc = Null THEN JsonToken("null", <<>>)
       ELSE JsonToken("string", state.last_run_utc),
       JsonToken(",", <<>>),
       JsonToken("key", "seen_pmids"), JsonToken(":", <<>>),
       JsonToken("[", <<>>) >>
    \o JsonItems(state.seen_pmids)
    \o << JsonToken("]", <<>>), JsonToken("}", <<>>) >>

\* where the member called key starts in a text
JsonKey(text, key) ==
    CHOOSE i \in 1..Len(text) : text[i].tok = "key" /\ text[i].val = key

\* the strings of a list, from the token at i to the closing bracket
RECURSIVE JsonList(_, _)
JsonList(text, i) ==
    IF text[i].tok = "]" THEN <<>>
    ELSE IF text[i].tok = "string" THEN <<text[i].val>> \o JsonList(text, i + 1)
    ELSE JsonList(text, i + 1)

\* json.load(f)
json_loads(text) ==
    LET v == text[JsonKey(text, "last_run_utc") + 2]
    IN [last_run_utc |-> IF v.tok = "null" THEN Null ELSE v.val,
        seen_pmids |-> JsonList(text, JsonKey(text, "seen_pmids") + 3)]

\* a state file with this last_run_utc and this seen_pmids
StateFile(last_run, seen_list) ==
    [exists |-> TRUE,
     text |-> json_dumps([last_run_utc |-> last_run, seen_pmids |-> seen_list])]

\* a loader whose default looks back one week
load_state_week(f, t) ==
    IF ~f.exists
    THEN [last_run_utc |-> isoformat(t - 7 * TicksPerDay),
          seen_pmids |-> <<>>]
    ELSE json_loads(f.text)

\* load_state(path) at time t
load_state(f, t) ==
    IF ~f.exists
    THEN [last_run_utc |-> isoformat(t - LookbackDays * TicksPerDay),
          seen_pmids |-> <<>>]
    ELSE json_loads(f.text)

\* save_state(path, state)
save_state(state) == [exists |-> TRUE, text |-> json_dumps(state)]

\* Python's order on strings of digits
Digits == <<"0","1","2","3","4","5","6","7","8","9">>
CharRank(c) == CHOOSE k \in 1..10 : Digits[k] = c

RECURSIVE StrLess(_, _)
StrLess(a, b) ==
    IF b = <<>> THEN FALSE
    ELSE IF a = <<>> THEN TRUE
    ELSE IF Head(a) = Head(b) THEN StrLess(Tail(a), Tail(b))
    ELSE CharRank(Head(a)) < CharRank(Head(b))

\* sorted(seen)
RECURSIVE Sorted(_)
Sorted(S) ==
    IF S = {} THEN <<>>
    ELSE LET m == CHOOSE x \in S : \A y \in S \ {x} : StrLess(x, y)
         IN <<m>> \o Sorted(S \ {m})

Range(q) == {q[k] : k \in 1..Len(q)}

\* ------------------------------------------------------------------------
\* Configuration and the remote services
\* ------------------------------------------------------------------------
JaneASmith == <<"J","a","n","e"," ","A"," ","S","m","i","t","h">>
BobLee == <<"B","o","b"," ","L","e","e">>
Cher == <<"C","h","e","r">>

Jane == [full_name |-> JaneASmith, affiliations |-> << <<"G","e","n">> >>]
Bob == [full_name |-> BobLee, affiliations |-> << <<"U","n","i">> >>]
Mono == [full_name |-> Cher, affiliations |-> << <<"U","n","i">> >>]

\* config/authors.yaml
Rosters == { <<Jane, Bob>>, <<Jane, Mono>> }

\* starting_date / ending_date of config/settings.yaml: <<>> is the empty
\* text, <<d>> the text of day d
SettingsChoices ==
    { [starting_date |-> <<>>, ending_date |-> <<>>],
      [starting_date |-> <<1>>, ending_date |-> <<>>],
      [starting_date |-> <<1>>, ending_date |-> <<2>>],
      [starting_date |-> <<1>>, ending_date |-> <<0>>] }

P100 == <<"1","0","0">>
P101 == <<"1","0","1">>
P102 == <<"1","0","2">>
Pmids == {P100, P101, P102}

\* the records PubMed holds
Article(pmid) ==
    IF pmid = P100
    THEN [pmid |-> P100, affTexts |-> << <<>> >>,
          authors |-> << [LastName |-> <<"S","m","i","t","h">>,
                          ForeName |-> <<"J","a","n","e">>,
                          Initials |-> <<>>] >>,
          title |-> <<"T","0">>, journal |-> <<"J">>,
          pub_year |-> <<"2","0","2","4">>, doi |-> <<>>]
    ELSE IF pmid = P101
    THEN [pmid |-> P101, affTexts |-> << <<"G","E","N"," ","D","e","p","t">> >>,
          authors |-> << [LastName |-> <<"S","m","i","t","h">>,
                          ForeName |-> <<"J","a","n","e"," ","A">>,
                          Initials |-> <<"J","A">>] >>,
          title |-> <<"T","1">>, journal |-> <<"J">>,
          pub_year |-> <<"2","0","2","4">>, doi |-> <<"d","1">>]
    ELSE [pmid |-> P102, affTexts |-> << <<"O","t","h","e","r"," ","U","n","i">> >>,
          authors |-> << [LastName |-> <<"S","m","i","t","h">>,
                          ForeName |-> <<"J","o","h","n">>,
                          Initials |-> <<"J">>],
                         [LastName |-> <<"L","e","e">>,
                          ForeName |-> <<"B","o","b">>,
                          Initials |-> <<"B">>] >>,
          title |-> <<"T","2">>, journal |-> <<"J">>,
          pub_year |-> <<"2","0","2","4">>, doi |-> <<>>]

\* an idlist esearch can return: identifiers newest first, none twice
PubDateOrder == <<P102, P101, P100>>

RECURSIVE SubSeqsOf(_)
SubSeqsOf(q) ==
    IF q = <<>> THEN { <<>> }
    ELSE LET rest == SubSeqsOf(Tail(q)) IN rest \cup { <<Head(q)>> \o r : r \in rest }

IdLists == SubSeqsOf(PubDateOrder)

\* the ways one requests.get + raise_for_status can fail
HttpErrors == {"Timeout", "ConnectionError", "HTTP5xx", "HTTP429", "HTTP4xx"}

\* every one of them is a requests.RequestException
IsRequestException(e) == e \in HttpErrors

\* a policy that stops one attempt later
MaxAttemptsFive == 4 + 1

\* stop_after_attempt(4)
MaxAttempts == 4

\* the chunk size of efetch_details
ChunkSize == 200

\* build_query(author_name, mindate, maxdate)
build_query(author_name, mindate, maxdate) ==
    [author |-> author_name, mindate |-> mindate, maxdate |-> maxdate]

\* ------------------------------------------------------------------------
\* The spreadsheet: a worksheet is the sequence of its rows of cells
\* ------------------------------------------------------------------------
NoSheet == <<"WorksheetNotFound">>

Master == <<"Master">>
Meta == <<"Meta">>
SheetTitles == {Master, Meta} \cup {JaneASmith, BobLee, Cher}

EXPECTED_COLS == <<"pmid", "title", "journal", "pub_year", "doi",
                   "authors", "pubmed_url", "tracked_author">>

Placeholder == << <<"No publications found in this date window.">> >>

Max(a, b) == IF a > b THEN a ELSE b
Min(a, b) == IF a < b THEN a ELSE b

\* ws.clear()
Clear(ws) == <<>>

\* ws.update(values): the values overwrite the cells from A1, every other
\* cell keeps its content
Update(ws, values) ==
    [r \in 1..Max(Len(ws), Len(values)) |->
        IF r > Len(values) THEN ws[r]
        ELSE IF r > Len(ws) THEN values[r]
        ELSE values[r] \o SubSeq(ws[r], Len(values[r]) + 1, Len(ws[r]))]

\* pd.DataFrame(all_rows, columns=EXPECTED_COLS)
DataFrame(rows) == [columns |-> EXPECTED_COLS, rows |-> rows]

\* [df.columns.tolist()] + df.fillna("").values.tolist()
TableValues(df) ==
    <<df.columns>> \o
    [r \in 1..Len(df.rows) |-> [c \in 1..Len(df.columns) |-> df.rows[r][df.columns[c]]]]

\* df[df["tracked_author"] == name]
SubFrame(df, name) ==
    [columns |-> df.columns,
     rows |-> SelectSeq(df.rows, LAMBDA r : r.tracked_author = name)]

\* write_df_to_worksheet(sh, title, df)
write_df_to_worksheet(sh, title, df) ==
    [sh EXCEPT ![title] = Update(Clear(IF sh[title] = NoSheet THEN <<>> ELSE sh[title]),
                                 TableValues(df))]

\* a worksheet loop that does not clear the worksheet it finds
write_author_sheet_noclear(sh, name, df) ==
    LET sub == SubFrame(df, name)
        ws == IF sh[name] = NoSheet THEN <<>> ELSE sh[name]
    IN [sh EXCEPT ![name] = IF sub.rows # <<>>
                            THEN Update(ws, TableValues(sub))
                            ELSE Update(ws, Placeholder)]

\* one iteration of the per-author worksheet loop of main()
write_author_sheet(sh, name, df) ==
    LET sub == SubFrame(df, name)
        ws == IF sh[name] = NoSheet THEN <<>> ELSE Clear(sh[name])
    IN [sh EXCEPT ![name] = IF sub.rows # <<>>
                            THEN Update(ws, TableValues(sub))
                            ELSE Update(ws, Placeholder)]

\* write_meta_to_worksheet(sh) at time t
write_meta_to_worksheet(sh, t) ==
    [sh EXCEPT ![Meta] = Update(IF sh[Meta] = NoSheet THEN <<>> ELSE sh[Meta],
                                << <<"last_updated_utc", isoformat(t)>> >>)]

\* a worksheet left by an earlier run
StaleSheet == << EXPECTED_COLS, <<"old">>, <<"old">> >>

\* the spreadsheet before the run: some worksheets exist, some do not
InitialSinks ==
    { [t \in SheetTitles |-> IF t \in {Master, JaneASmith} THEN StaleSheet ELSE NoSheet] }

InitialFiles ==
    { NoFile,
      StateFile(Null, <<>>),
      StateFile(isoformat(0), <<P100>>),
      StateFile(isoformat(1), <<P100, P102>>) }

\* ------------------------------------------------------------------------
\* State
\* ------------------------------------------------------------------------
VARIABLES
    clock,        \* the current time, in ticks
    runs,         \* how many times main() has been started
    file,         \* data/state.json
    sink,         \* the spreadsheet: worksheet title -> rows, or NoSheet
    csv,          \* out/master.csv
    authors,      \* config/authors.yaml
    settings,     \* config/settings.yaml as the current run read it
    pc,           \* where main() stands
    state,        \* main(): state
    now,          \* main(): now
    mindate,      \* main(): mindate
    maxdate,      \* main(): maxdate
    update_state, \* main(): update_state
    seen,         \* main(): seen
    all_rows,     \* main(): all_rows
    idx,          \* main(): position of the first author loop in the roster
    jdx,          \* main(): position of the worksheet loop in the roster
    new_pmids,    \* main(): new_pmids of the current author
    off,          \* efetch_details(): i, the start of the current chunk
    rows,         \* efetch_details(): rows
    tries,        \* http_get(): the outcome of each attempt of the call
    abort,        \* the exception that ended the run, "none" if none did
    file0,        \* history: data/state.json as it was when the run started
    prev,         \* history: the completed incremental runs before this run
    searchLog,    \* history: per author, the query and the idlist returned
    fetchLog,     \* history: per author, the pmids given to efetch_details
    arg,          \* the argument of a function examined on its own
    res           \* its result, <<>> until it has been applied

vars == <<clock, runs, file, sink, csv, authors, settings, pc, state, now,
          mindate, maxdate, update_state, seen, all_rows, idx, jdx, new_pmids,
          off, rows, tries, abort, file0, prev, searchLog, fetchLog,
          arg, res>>

persistent == <<file, sink, csv, authors>>
window == <<settings, state, now, mindate, maxdate, update_state, file0, prev>>
fetchv == <<new_pmids, off, rows>>
logs == <<searchLog, fetchLog>>
pure == <<arg, res>>

\* no incremental run was completed yet
NoHistory == [returned |-> {}, end |-> <<>>, meta |-> <<>>]

NoSettings == [starting_date |-> <<>>, ending_date |-> <<>>]

\* the variables of main() before main() has run
NotStarted ==
    /\ clock = 0
    /\ runs = 0
    /\ csv = <<>>
    /\ settings = NoSettings
    /\ state = [last_run_utc |-> Null, seen_pmids |-> <<>>]
    /\ now = 0
    /\ mindate = 0
    /\ maxdate = 0
    /\ update_state = FALSE
    /\ seen = {}
    /\ all_rows = <<>>
    /\ idx = 1
    /\ jdx = 1
    /\ new_pmids = <<>>
    /\ off = 0
    /\ rows = <<>>
    /\ abort = "none"
    /\ file0 = NoFile
    /\ prev = NoHistory
    /\ searchLog = <<>>
    /\ fetchLog = <<>>

Init ==
    /\ NotStarted
    /\ file \in InitialFiles
    /\ sink \in InitialSinks
    /\ authors \in Rosters
    /\ pc = "idle"
    /\ tries = <<>>
    /\ arg = <<>>
    /\ res = <<>>

\* ------------------------------------------------------------------------
\* main(): from the start to the first author
\* ------------------------------------------------------------------------
\* Time passes.  The program reads the clock when a run starts and when it
\* writes the Meta worksheet, so it is enough to let time pass before these.
Tick(limit) ==
    /\ \/ pc \in {"idle", "done", "aborted"} /\ runs < limit
       \/ pc = "meta"
    /\ clock < MaxClock
    /\ clock' = clock + 1
    /\ UNCHANGED <<runs, persistent, window, pc, seen, all_rows, idx, jdx, fetchv,
                   tries, abort, logs, pure>>

\* a resolver that keeps the stored seen set and the commit in manual mode
ResolveWindowPersisting(s, st, t) ==
    [mindate |-> IF s.starting_date # <<>> THEN s.starting_date[1]
                 ELSE IF st.last_run_utc # Null
                      THEN ymd(iso_to_utc_dt(st.last_run_utc))
                      ELSE ymd(t - LookbackDays * TicksPerDay),
     maxdate |-> IF s.starting_date # <<>> /\ s.ending_date # <<>>
                 THEN s.ending_date[1] ELSE ymd(t),
     update_state |-> TRUE,
     seen |-> Range(st.seen_pmids)]

\* the date window logic of main(): the window, update_state and seen for
\* the settings s, the loaded state st and the time t
ResolveWindow(s, st, t) ==
    LET settings_start == s.starting_date
        settings_end == s.ending_date
        last_run == st.last_run_utc
    IN IF settings_start # <<>>
       THEN [mindate |-> settings_start[1],
             maxdate |-> IF settings_end # <<>> THEN settings_end[1] ELSE ymd(t),
             update_state |-> FALSE,
             seen |-> {}]
       ELSE [mindate |-> IF last_run # Null
                         THEN ymd(iso_to_utc_dt(last_run))
                         ELSE ymd(t - LookbackDays * TicksPerDay),
             maxdate |-> ymd(t),
             update_state |-> TRUE,
             seen |-> Range(st.seen_pmids)]

\* the history once the run that just ended, a completed incremental one,
\* is added: what its searches returned, the end of its window and the
\* time it wrote to the Meta worksheet
Completed(h) ==
    [returned |-> h.returned \cup
                  UNION { Range(searchLog[k].idlist) : k \in 1..Len(searchLog) },
     end |-> <<maxdate>>,
     meta |-> sink[Meta][1][2]]

\* main() up to the author loop: the configuration and the state are
\* loaded and the date window is resolved
StartRun(limit) ==
    /\ pc \in {"idle", "done", "aborted"}
    /\ runs < limit
    /\ runs' = runs + 1
    /\ \E s \in SettingsChoices :
         LET st == load_state(file, clock)
             w == ResolveWindow(s, st, clock)
         IN /\ settings' = s
            /\ state' = st
            /\ now' = clock
            /\ mindate' = w.mindate
            /\ maxdate' = w.maxdate
            /\ update_state' = w.update_state
            /\ seen' = w.seen
    /\ file0' = file
    /\ prev' = IF pc = "done" /\ update_state THEN Completed(prev) ELSE prev
    /\ all_rows' = <<>>
    /\ idx' = 1
    /\ jdx' = 1
    /\ new_pmids' = <<>>
    /\ off' = 0
    /\ rows' = <<>>
    /\ abort' = "none"
    /\ searchLog' = <<>>
    /\ fetchLog' = <<>>
    /\ pc' = "loop"
    /\ UNCHANGED <<clock, persistent, tries, pure>>

\* the head of "for a in authors": the loop ends, or the search name of the
\* next author is built, which raises ValueError for a one-token name
LoopHead ==
    /\ pc = "loop"
    /\ IF idx > Len(authors)
       THEN /\ pc' = "master"
            /\ abort' = abort
       ELSE IF build_search_name(authors[idx].full_name) = ValueError
            THEN /\ pc' = "aborted"
                 /\ abort' = "ValueError"
            ELSE /\ pc' = "search"
                 /\ abort' = abort
    /\ UNCHANGED <<clock, runs, persistent, window, seen, all_rows, idx, jdx,
                   fetchv, logs, pure, tries>>

\* ------------------------------------------------------------------------
\* http_get under @retry
\* ------------------------------------------------------------------------
\* whether tenacity tries again after the attempt number made failed with e
ShouldRetry(e, made) == IsRequestException(e) /\ made < MaxAttempts

\* the attempts made by the call so far
Attempts == Len(tries)

\* one attempt of http_get fails with e: tenacity waits and tries again,
\* or re-raises e to the caller
HttpAttemptFail ==
    /\ pc = "http_get"
    /\ \E e \in HttpErrors :
         /\ tries' = Append(tries, e)
         /\ IF ShouldRetry(e, Attempts + 1)
            THEN /\ pc' = pc
                 /\ res' = res
            ELSE /\ pc' = "http_raised"
                 /\ res' = <<e>>
    /\ UNCHANGED <<clock, runs, persistent, window, seen, all_rows, idx, jdx,
                   fetchv, abort, logs, arg>>

\* one attempt of http_get succeeds: its response is returned
HttpAttemptOk ==
    /\ pc = "http_get"
    /\ tries' = Append(tries, "ok")
    /\ pc' = "http_returned"
    /\ res' = <<[url |-> arg.url, attempt |-> Attempts + 1]>>
    /\ UNCHANGED <<clock, runs, persistent, window, seen, all_rows, idx, jdx,
                   fetchv, abort, logs, arg>>

\* in main(): the http_get of esearch_pmids or efetch_details raises, and
\* nothing in main() catches the exception
HttpRaise ==
    /\ pc \in {"search", "fetch"}
    /\ pc' = "aborted"
    /\ abort' = "RequestException"
    /\ UNCHANGED <<clock, runs, persistent, window, seen, all_rows, idx, jdx,
                   fetchv, tries, logs, pure>>

\* ------------------------------------------------------------------------
\* main(): one author
\* ------------------------------------------------------------------------
\* r["tracked_author"] = full_name
WithAuthor(r, name) ==
    [c \in DOMAIN r \cup {"tracked_author"} |->
        IF c = "tracked_author" THEN name ELSE r[c]]

\* an update that forgets what was seen before
SeenUpdateReplace(seenSet, np) == Range(np)

\* seen.update(new_pmids)
SeenUpdate(seenSet, np) == seenSet \cup Range(np)

\* a filter that lets every identifier through
NewPmidsUnfiltered(pmids, seenSet) == pmids

\* [p for p in pmids if p not in seen]
NewPmids(pmids, seenSet) == SelectSeq(pmids, LAMBDA p : p \notin seenSet)

\* esearch_pmids returns an idlist; the seen ones are dropped and
\* efetch_details is called with the rest, returning at once when none is left
SearchOk(idlists) ==
    /\ pc = "search"
    /\ \E pmids \in idlists :
         LET a == authors[idx]
             query == build_query(build_search_name(a.full_name), mindate, maxdate)
             np == NewPmids(pmids, seen)
         IN /\ searchLog' = Append(searchLog, [query |-> query, idlist |-> pmids])
            /\ fetchLog' = Append(fetchLog, np)
            /\ new_pmids' = np
            /\ IF np = <<>>
               THEN /\ seen' = SeenUpdate(seen, np)
                    /\ idx' = idx + 1
                    /\ pc' = "loop"
               ELSE /\ seen' = seen
                    /\ idx' = idx
                    /\ pc' = "fetch"
    /\ off' = 0
    /\ rows' = <<>>
    /\ UNCHANGED <<clock, jdx, runs, persistent, window, all_rows, abort, pure, tries>>

\* pmids[i:i + 200]
Chunk(pmids, i) == SubSeq(pmids, i + 1, Min(i + ChunkSize, Len(pmids)))

\* the response to one efetch request parses: its articles are filtered,
\* and after the last chunk the rows are tagged and the pmids marked seen
FetchOk ==
    /\ pc = "fetch"
    /\ LET a == authors[idx]
           chunk == Chunk(new_pmids, off)
           articles == [k \in 1..Len(chunk) |-> Article(chunk[k])]
           rows2 == rows \o ChunkRows(articles, a.full_name, a.affiliations)
       IN IF off + ChunkSize >= Len(new_pmids)
          THEN /\ all_rows' = all_rows \o
                     [k \in 1..Len(rows2) |-> WithAuthor(rows2[k], a.full_name)]
               /\ seen' = SeenUpdate(seen, new_pmids)
               /\ idx' = idx + 1
               /\ off' = 0
               /\ rows' = <<>>
               /\ pc' = "loop"
          ELSE /\ off' = off + ChunkSize
               /\ rows' = rows2
               /\ pc' = pc
               /\ UNCHANGED <<all_rows, seen, idx>>
    /\ UNCHANGED <<clock, jdx, runs, persistent, window, new_pmids, abort, logs, pure, tries>>

\* the response to one efetch request is not well-formed XML:
\* ET.fromstring raises and nothing catches it
FetchMalformed ==
    /\ pc = "fetch"
    /\ pc' = "aborted"
    /\ abort' = "ParseError"
    /\ UNCHANGED <<clock, runs, persistent, window, seen, all_rows, idx, jdx,
                   fetchv, logs, pure, tries>>

\* ------------------------------------------------------------------------
\* main(): the output
\* ------------------------------------------------------------------------
\* the combined table goes to out/master.csv and to the Master worksheet
WriteMaster ==
    /\ pc = "master"
    /\ csv' = TableValues(DataFrame(all_rows))
    /\ sink' = write_df_to_worksheet(sink, Master, DataFrame(all_rows))
    /\ jdx' = 1
    /\ pc' = IF Len(authors) = 0 THEN "meta" ELSE "sheet"
    /\ UNCHANGED <<clock, runs, file, authors, window, seen, all_rows, idx, fetchv,
                   tries, abort, logs, pure>>

\* one iteration of the second "for a in authors"
WriteAuthorSheet ==
    /\ pc = "sheet"
    /\ sink' = write_author_sheet(sink, authors[jdx].full_name, DataFrame(all_rows))
    /\ jdx' = jdx + 1
    /\ pc' = IF jdx = Len(authors) THEN "meta" ELSE "sheet"
    /\ UNCHANGED <<clock, runs, file, csv, authors, window, seen, all_rows, idx,
                   fetchv, tries, abort, logs, pure>>

WriteMeta ==
    /\ pc = "meta"
    /\ sink' = write_meta_to_worksheet(sink, clock)
    /\ pc' = "save"
    /\ UNCHANGED <<clock, runs, file, csv, authors, window, seen, all_rows, idx, jdx,
                   fetchv, tries, abort, logs, pure>>

\* a call of the spreadsheet API raises
SinkError ==
    /\ pc \in {"master", "sheet", "meta"}
    /\ \/ pc # "master" /\ csv' = csv
       \/ pc = "master" /\ csv' = TableValues(DataFrame(all_rows))
    /\ pc' = "aborted"
    /\ abort' = "APIError"
    /\ UNCHANGED <<clock, runs, file, sink, authors, window, seen, all_rows,
                   idx, jdx, fetchv, tries, logs, pure>>

\* an end of run that stores the time of the save
SaveStateAtCommit ==
    /\ pc = "save"
    /\ IF update_state
       THEN /\ state' = [state EXCEPT !.last_run_utc = isoformat(clock),
                                      !.seen_pmids = Sorted(seen)]
            /\ file' = save_state(state')
       ELSE UNCHANGED <<state, file>>
    /\ pc' = "done"
    /\ UNCHANGED <<clock, runs, sink, csv, authors, settings, now, mindate,
                   maxdate, update_state, file0, prev, seen, all_rows, idx, jdx, fetchv,
                   tries, abort, logs, pure>>

\* an end of run that saves the state in either mode
SaveStateAlways ==
    /\ pc = "save"
    /\ state' = [state EXCEPT !.last_run_utc = isoformat(now),
                              !.seen_pmids = Sorted(seen)]
    /\ file' = save_state(state')
    /\ pc' = "done"
    /\ UNCHANGED <<clock, runs, sink, csv, authors, settings, now, mindate,
                   maxdate, update_state, file0, prev, seen, all_rows, idx, jdx, fetchv,
                   tries, abort, logs, pure>>

\* "if update_state": the state is saved, or not, and the run is complete
SaveState ==
    /\ pc = "save"
    /\ IF update_state
       THEN /\ state' = [state EXCEPT !.last_run_utc = isoformat(now),
                                      !.seen_pmids = Sorted(seen)]
            /\ file' = save_state(state')
       ELSE UNCHANGED <<state, file>>
    /\ pc' = "done"
    /\ UNCHANGED <<clock, runs, sink, csv, authors, settings, now, mindate,
                   maxdate, update_state, file0, prev, seen, all_rows, idx, jdx, fetchv,
                   tries, abort, logs, pure>>

\* one run of main(), from any state of the file and the spreadsheet
Next ==
    \/ Tick(1)
    \/ StartRun(1)
    \/ LoopHead
    \/ HttpRaise
    \/ SearchOk(IdLists)
    \/ FetchOk
    \/ FetchMalformed
    \/ WriteMaster
    \/ WriteAuthorSheet
    \/ WriteMeta
    \/ SinkError
    \/ SaveState

Spec == Init /\ [][Next]_vars

\* ------------------------------------------------------------------------
\* One call of http_get, by esearch_pmids or by efetch_details
\* ------------------------------------------------------------------------
\* main() does not run while a function is examined on its own
NoRun ==
    /\ NotStarted
    /\ file = NoFile
    /\ sink = [t \in SheetTitles |-> NoSheet]
    /\ authors = <<>>

InitHttp ==
    /\ NoRun
    /\ pc = "http_get"
    /\ tries = <<>>
    /\ arg \in { [url |-> "esearch.fcgi"], [url |-> "efetch.fcgi"] }
    /\ res = <<>>

NextHttp ==
    \/ HttpAttemptFail
    \/ HttpAttemptOk

SpecHttp == InitHttp /\ [][NextHttp]_vars

\* ------------------------------------------------------------------------
\* One call of build_search_name
\* ------------------------------------------------------------------------
\* every string of at most n characters of the set chars
RECURSIVE Strings(_, _)
Strings(chars, n) ==
    IF n = 0 THEN { <<>> }
    ELSE LET shorter == Strings(chars, n - 1)
         IN shorter \cup { Append(t, c) : t \in shorter, c \in chars }

FullNames == Strings({"a", "b", " "}, MaxNameLen)

InitName ==
    /\ NoRun
    /\ pc = "build_search_name"
    /\ tries = <<>>
    /\ arg \in { [full_name |-> n] : n \in FullNames }
    /\ res = <<>>

\* build_search_name(full_name) returns or raises
ApplyBuildSearchName ==
    /\ pc = "build_search_name"
    /\ LET r == build_search_name(arg.full_name)
       IN /\ pc' = IF r = ValueError THEN "raised" ELSE "returned"
          /\ res' = <<r>>
    /\ UNCHANGED <<clock, runs, persistent, window, seen, all_rows, idx, jdx,
                   fetchv, tries, abort, logs, arg>>

NextName == ApplyBuildSearchName

SpecName == InitName /\ [][NextName]_vars

\* ------------------------------------------------------------------------
\* The candidate filter of efetch_details on one article
\* ------------------------------------------------------------------------
AffStrings == Strings({"g", "G", " "}, MaxFieldLen)
Keywords == Strings({"g", "G"}, MaxKeywordLen)

\* the Affiliation texts of an article: none, one, or two of which one varies
AffTextLists ==
    { <<>> } \cup { <<a>> : a \in AffStrings }
             \cup { <<a, <<"x">> >> : a \in AffStrings }
             \cup { << <<>>, a >> : a \in AffStrings }

\* the affiliations of a tracked author: none, one, or two of which one varies
KeywordLists ==
    { <<>> } \cup { <<k>> : k \in Keywords }
             \cup { << <<"z","z">>, k >> : k \in Keywords }

JoS == <<"J","o"," ","S">>
JoAS == <<"J","o"," ","A"," ","S">>

EntrySmithJA ==
    [LastName |-> <<"S">>, ForeName |-> <<"J","o"," ","A">>, Initials |-> <<"J","A">>]
EntryTJ ==
    [LastName |-> <<"T">>, ForeName |-> <<"J","o">>, Initials |-> <<"J">>]

\* the Author elements of an article: the texts of one of them vary
AuthorEntries ==
    { [LastName |-> l, ForeName |-> f, Initials |-> i] :
        l \in { <<"S">>, <<"s">>, <<" ","S">>, <<"T">>, <<>> },
        f \in Strings({"J", "o"}, MaxFieldLen),
        i \in Strings({"J", "a"}, MaxFieldLen) }

AuthorLists ==
    { <<>> } \cup { <<e>> : e \in AuthorEntries }
             \cup { <<EntryTJ, e>> : e \in AuthorEntries }

ArticleWith(affTexts, authorList) ==
    [pmid |-> P101, affTexts |-> affTexts, authors |-> authorList,
     title |-> <<"T">>, journal |-> <<"J">>, pub_year |-> <<>>, doi |-> <<>>]

\* articles whose affiliations vary, for authors whose keywords vary
AffiliationCases ==
    { [article |-> ArticleWith(a, au), full_name |-> JoAS, affiliations |-> kw] :
        a \in AffTextLists, kw \in KeywordLists,
        au \in { <<EntrySmithJA>>, <<EntryTJ>> } }

\* articles whose authors vary, for two tracked names
AuthorCases ==
    { [article |-> ArticleWith(a, au), full_name |-> n, affiliations |-> << <<"g">> >>] :
        a \in { <<>>, << <<"G">> >>, << <<"x">> >> },
        au \in AuthorLists, n \in {JoS, JoAS} }

InitMatch ==
    /\ NoRun
    /\ pc = "filter"
    /\ tries = <<>>
    /\ arg \in AffiliationCases \cup AuthorCases
    /\ res = <<>>

\* the filter of efetch_details decides on the article
ApplyFilter ==
    /\ pc = "filter"
    /\ res' = <<Decide(arg.article, arg.full_name, arg.affiliations)>>
    /\ pc' = "filtered"
    /\ UNCHANGED <<clock, runs, persistent, window, seen, all_rows, idx, jdx,
                   fetchv, tries, abort, logs, arg>>

NextMatch == ApplyFilter

SpecMatch == InitMatch /\ [][NextMatch]_vars

\* ------------------------------------------------------------------------
\* Several runs of main(), one after the other
\* ------------------------------------------------------------------------
MaxRuns == 3

\* what esearch returns in these runs
RunIdLists == { <<P102>>, <<P102, P101>> }

InitRuns ==
    /\ NotStarted
    /\ file = NoFile
    /\ sink \in InitialSinks
    /\ authors = <<Jane, Bob>>
    /\ pc = "idle"
    /\ tries = <<>>
    /\ arg = <<>>
    /\ res = <<>>

NextRuns ==
    \/ Tick(MaxRuns)
    \/ StartRun(MaxRuns)
    \/ LoopHead
    \/ HttpRaise
    \/ SearchOk(RunIdLists)
    \/ FetchOk
    \/ FetchMalformed
    \/ WriteMaster
    \/ WriteAuthorSheet
    \/ WriteMeta
    \/ SinkError
    \/ SaveState

SpecRuns == InitRuns /\ [][NextRuns]_vars

\* ------------------------------------------------------------------------
\* The state file on its own: a state is saved and loaded again
\* ------------------------------------------------------------------------
MaxSeenLen == 3

\* identifiers of several lengths
IdStrings == Pmids \cup { <<"9">>, <<"1","0">> }

\* the orders in which main() can have added identifiers to seen
InsertionOrders == UNION { [1..n -> IdStrings] : n \in 0..MaxSeenLen }

\* the times a run can have started at
Timestamps == (0 - TicksPerDay)..MaxClock

\* seen after seen.update of each identifier in turn
RECURSIVE SeenAfter(_, _)
SeenAfter(seenSet, order) ==
    IF order = <<>> THEN seenSet
    ELSE SeenAfter(SeenUpdate(seenSet, <<Head(order)>>), Tail(order))

InitState ==
    /\ NoRun
    /\ pc = "commit"
    /\ tries = <<>>
    /\ arg \in { [T |-> t, order |-> q] : t \in Timestamps, q \in InsertionOrders }
    /\ res = <<>>

\* the end of main() in incremental mode, for a run that started at arg.T
\* and added the identifiers of arg.order to seen
CommitState ==
    /\ pc = "commit"
    /\ seen' = SeenAfter(seen, arg.order)
    /\ state' = [state EXCEPT !.last_run_utc = isoformat(arg.T),
                              !.seen_pmids = Sorted(seen')]
    /\ file' = save_state(state')
    /\ pc' = "saved"
    /\ UNCHANGED <<clock, runs, sink, csv, authors, settings, now, mindate,
                   maxdate, update_state, file0, prev, all_rows, idx, jdx, fetchv,
                   tries, abort, logs, pure>>

\* the start of the next main(): the state is loaded, seen is the set of
\* its seen_pmids and the time of last_run_utc is read back
ReloadState ==
    /\ pc = "saved"
    /\ state' = load_state(file, clock)
    /\ seen' = Range(state'.seen_pmids)
    /\ res' = <<iso_to_utc_dt(state'.last_run_utc)>>
    /\ pc' = "loaded"
    /\ UNCHANGED <<clock, runs, persistent, settings, now, mindate, maxdate,
                   update_state, file0, prev, all_rows, idx, jdx, fetchv, tries,
                   abort, logs, arg>>

NextState ==
    \/ CommitState
    \/ ReloadState

SpecState == InitState /\ [][NextState]_vars

\* ------------------------------------------------------------------------
\* Properties of a run of main()
\* ------------------------------------------------------------------------
\* what a state file holds
Stored(f) == json_loads(f.text)

\* the seen identifiers of the file as the run found it
Seen0 == IF file0.exists THEN Range(Stored(file0).seen_pmids) ELSE {}

Incremental == runs > 0 /\ settings.starting_date = <<>>
Manual == runs > 0 /\ settings.starting_date # <<>>

\* every identifier a search of this run returned so far
Searched == UNION { Range(searchLog[k].idlist) : k \in 1..Len(searchLog) }

\* every identifier efetch_details was given in this run so far
Fetched == UNION { Range(fetchLog[k]) : k \in 1..Len(fetchLog) }

\* C1: in an incremental run no identifier of the persisted seen set is ever
\* passed to efetch_details, whatever the searches return.
C1_SeenNeverFetched == Incremental => Fetched \cap Seen0 = {}

\* an incremental run whose search returned a seen identifier next to a new one
C1_Witness ==
    /\ Incremental
    /\ Searched \cap Seen0 # {}
    /\ Fetched # {}

\* C2: in a manual run the seen set starts empty whatever the file holds, the
\* window comes from the settings, and the file stays what it was.
C2_ManualLeavesState ==
    Manual =>
        /\ file = file0
        /\ seen \subseteq Searched
        /\ mindate = settings.starting_date[1]
        /\ maxdate = IF settings.ending_date # <<>> THEN settings.ending_date[1]
                                                    ELSE now \div TicksPerDay

\* a completed manual run over a file with seen identifiers, one of which a
\* search returned and efetch_details was given
C2_Witness ==
    /\ Manual
    /\ pc = "done"
    /\ Seen0 # {}
    /\ Fetched \cap Seen0 # {}

\* C3: once an author is processed every identifier of its search is in the
\* seen set, accepted or not; the seen set never shrinks during a run; a
\* completed incremental run persists the prior seen set united with every
\* identifier any search of the run returned.
C3_SeenAccumulates ==
    /\ [](/\ \A k \in 1..Len(searchLog) :
               (runs > 0 /\ k < idx) => Range(searchLog[k].idlist) \subseteq seen
          /\ (Incremental /\ pc = "done") =>
               Range(Stored(file).seen_pmids) = Seen0 \cup Searched)
    /\ [][runs' = runs => seen \subseteq seen']_vars

\* a completed incremental run that persisted an identifier the filter rejected
C3_Witness ==
    /\ Incremental
    /\ pc = "done"
    /\ \E p \in Range(Stored(file).seen_pmids) \ Seen0 :
         \A k \in 1..Len(all_rows) : all_rows[k].pmid # p

\* C4: a fatal failure of one author's search or detail request aborts that
\* author only: it never ends the run, which goes on to the remaining
\* authors and to the output.
C4_FetchErrorEndsAuthorOnly == ~(pc = "aborted" /\ abort = "RequestException")

\* the cells of a row, column by column
RowCells(r) ==
    <<r.pmid, r.title, r.journal, r.pub_year, r.doi, r.authors, r.pubmed_url,
      r.tracked_author>>

FixedHeader ==
    <<"pmid", "title", "journal", "pub_year", "doi", "authors", "pubmed_url",
      "tracked_author">>

\* the accepted rows of the author called name, in order
RowsOf(name) == SelectSeq(all_rows, LAMBDA r : r.tracked_author = name)

\* C10: once the output is written every configured author has a worksheet:
\* with no accepted row it holds the placeholder row alone, whatever it held
\* before, otherwise the header and the author's rows; the combined table
\* has the fixed columns, also when it has no row.
C10_EveryAuthorHasSection ==
    pc \in {"save", "done"} =>
        /\ \A k \in 1..Len(authors) :
             LET name == authors[k].full_name
                 mine == RowsOf(name)
             IN /\ sink[name] # NoSheet
                /\ mine = <<>> =>
                     sink[name] = << <<"No publications found in this date window.">> >>
                /\ mine # <<>> =>
                     sink[name] = <<FixedHeader>> \o
                                  [r \in 1..Len(mine) |-> RowCells(mine[r])]
        /\ sink[Master] = <<FixedHeader>> \o
                          [r \in 1..Len(all_rows) |-> RowCells(all_rows[r])]

\* a completed run in which an author whose worksheet held old rows has no
\* accepted row, and another author has one
C10_Witness ==
    /\ pc = "done"
    /\ RowsOf(JaneASmith) = <<>>
    /\ RowsOf(BobLee) # <<>>
    /\ authors = <<Jane, Bob>>

\* ------------------------------------------------------------------------
\* Properties of http_get
\* ------------------------------------------------------------------------
\* C5: http_get retries transient failures only: an attempt that fails with
\* a 4xx response other than rate-limit is the last attempt of the call, and
\* the failure is propagated.
C5_NonTransientNotRetried ==
    \A k \in 1..Len(tries) :
        tries[k] = "HTTP4xx" => (k = Len(tries) /\ pc = "http_raised")

\* C6: a call of http_get makes at most 4 attempts: it returns the response
\* of its first successful attempt, or propagates the failure when 4
\* attempts have failed; there is no fifth attempt.
C6_AtMostFourAttempts ==
    /\ Len(tries) <= 4
    /\ pc = "http_get" =>
         /\ Len(tries) < 4
         /\ \A k \in 1..Len(tries) : tries[k] # "ok"
    /\ pc = "http_returned" =>
         /\ tries[Len(tries)] = "ok"
         /\ \A k \in 1..(Len(tries) - 1) : tries[k] # "ok"
         /\ res = <<[url |-> arg.url, attempt |-> Len(tries)]>>
    /\ pc = "http_raised" =>
         /\ Len(tries) = 4
         /\ \A k \in 1..4 : tries[k] # "ok"
         /\ res = <<tries[4]>>

\* a call of efetch_details' http_get that failed four times and raised
C6_Witness ==
    /\ pc = "http_raised"
    /\ arg.url = "efetch.fcgi"
    /\ Len(tries) = 4

\* ------------------------------------------------------------------------
\* Tokens of a name, by position
\* ------------------------------------------------------------------------
\* where the whitespace-separated tokens of s start
TokenStarts(s) ==
    { i \in 1..Len(s) : s[i] # " " /\ (i = 1 \/ s[i - 1] = " ") }

\* the token of s that starts at i
TokenAt(s, i) ==
    LET j == CHOOSE e \in i..Len(s) :
                 /\ \A k \in i..e : s[k] # " "
                 /\ (e = Len(s) \/ s[e + 1] = " ")
    IN SubSeq(s, i, j)

FirstStart(s) == CHOOSE i \in TokenStarts(s) : \A j \in TokenStarts(s) : i <= j
LastStart(s) == CHOOSE i \in TokenStarts(s) : \A j \in TokenStarts(s) : j <= i
SecondStart(s) ==
    CHOOSE i \in TokenStarts(s) \ {FirstStart(s)} :
        \A j \in TokenStarts(s) \ {FirstStart(s)} : i <= j

\* the initials of a name of 2 tokens or more: of the first token, and of
\* the first middle token when there is one
InitialsOf(s) ==
    IF Cardinality(TokenStarts(s)) >= 3
    THEN <<s[FirstStart(s)], s[SecondStart(s)]>>
    ELSE <<s[FirstStart(s)]>>

LowerOf(s) == [k \in 1..Len(s) |-> LowerChar(s[k])]

IsPrefix(p, t) == Len(p) <= Len(t) /\ \A k \in 1..Len(p) : p[k] = t[k]

\* ------------------------------------------------------------------------
\* Properties of build_search_name
\* ------------------------------------------------------------------------
\* C9: for a name of 2 tokens or more build_search_name returns the last
\* token, a space, the first letter of the first token and, when there is a
\* middle token, the first letter of the first one, never more than 2
\* initials; for a name of fewer than 2 tokens it raises and returns nothing.
C9_SearchName ==
    pc \in {"returned", "raised"} =>
        LET n == arg.full_name IN
        IF Cardinality(TokenStarts(n)) >= 2
        THEN /\ pc = "returned"
             /\ res = << TokenAt(n, LastStart(n)) \o <<" ">> \o InitialsOf(n) >>
             /\ Len(res[1]) <= Len(TokenAt(n, LastStart(n))) + 3
        ELSE /\ pc = "raised"
             /\ res = <<ValueError>>

\* the builder returned for a name with two middle tokens
C9_Witness ==
    /\ pc = "returned"
    /\ Cardinality(TokenStarts(arg.full_name)) = 4

\* ------------------------------------------------------------------------
\* Properties of the candidate filter
\* ------------------------------------------------------------------------
\* the affiliation strings the article carries
AffiliationStrings == { a \in Range(arg.article.affTexts) : a # <<>> }

\* s contains kw, whatever the case of the letters
ContainsAnyCase(str, kw) ==
    \E i \in 1..(Len(str) + 1) :
        /\ i + Len(kw) - 1 <= Len(str)
        /\ \A k \in 1..Len(kw) : LowerChar(str[i + k - 1]) = LowerChar(kw[k])

\* no affiliation string contains a keyword of the tracked author
NoKeywordFound ==
    \A a \in AffiliationStrings : \A k \in 1..Len(arg.affiliations) :
        ~ContainsAnyCase(a, arg.affiliations[k])

\* C7: an article without any affiliation string is not rejected by the
\* affiliation stage and is accepted when an author entry matches; an
\* article with affiliation strings none of which contains a keyword is
\* rejected, whatever its author entries.
C7_AffiliationStage ==
    pc = "filtered" =>
        /\ AffiliationStrings = {} =>
             /\ res # <<"AFFILIATION_MISMATCH">>
             /\ AuthorMatch(arg.article.authors, arg.full_name) => res = <<"ACCEPTED">>
        /\ (AffiliationStrings # {} /\ NoKeywordFound) =>
             res = <<"AFFILIATION_MISMATCH">>

\* the filter accepted an article whose only Affiliation element is empty
C7_Witness ==
    /\ pc = "filtered"
    /\ Len(arg.article.affTexts) > 0
    /\ AffiliationStrings = {}
    /\ arg.affiliations # <<>>
    /\ res = <<"ACCEPTED">>

\* the tracked author of the article under the filter
TrackedLast == LowerOf(TokenAt(arg.full_name, LastStart(arg.full_name)))
TrackedFirst == LowerOf(TokenAt(arg.full_name, FirstStart(arg.full_name)))
TrackedInits == LowerOf(InitialsOf(arg.full_name))

EntryLast(e) == LowerOf(Strip(e.LastName))
EntryFore(e) == LowerOf(Strip(e.ForeName))
EntryInits(e) == LowerOf(Strip(e.Initials))

\* C8 as claimed: an article that passed the affiliation stage is accepted
\* exactly when an author entry has the tracked last name and either its
\* initials are a prefix of the tracked initials, or it has no initials and
\* its fore-name is a prefix of the tracked first name.
C8_EntryPrefixOfTracked ==
    (pc = "filtered" /\ res # <<"AFFILIATION_MISMATCH">>) =>
        (res = <<"ACCEPTED">> <=>
            \E k \in 1..Len(arg.article.authors) :
                LET e == arg.article.authors[k] IN
                /\ EntryLast(e) = TrackedLast
                /\ \/ EntryInits(e) # <<>> /\ IsPrefix(EntryInits(e), TrackedInits)
                   \/ EntryInits(e) = <<>> /\ IsPrefix(EntryFore(e), TrackedFirst))

\* C8 amended: an article that passed the affiliation stage is accepted
\* exactly when an author entry has the tracked last name and either the
\* tracked initials are a prefix of its initials, or it has no initials and
\* the tracked first name is a prefix of its fore-name; else it is rejected
\* as an author mismatch.
C8_TrackedPrefixOfEntry ==
    (pc = "filtered" /\ res # <<"AFFILIATION_MISMATCH">>) =>
        /\ res \in { <<"ACCEPTED">>, <<"AUTHOR_MISMATCH">> }
        /\ res = <<"ACCEPTED">> <=>
             \E k \in 1..Len(arg.article.authors) :
                 LET e == arg.article.authors[k] IN
                 /\ EntryLast(e) = TrackedLast
                 /\ \/ IsPrefix(TrackedInits, EntryInits(e))
                    \/ EntryInits(e) = <<>> /\ IsPrefix(TrackedFirst, EntryFore(e))

\* the filter accepted an article on an entry whose initials are longer than
\* the tracked ones
C8_Witness ==
    /\ pc = "filtered"
    /\ res = <<"ACCEPTED">>
    /\ arg.full_name = JoS
    /\ \E k \in 1..Len(arg.article.authors) :
         /\ EntryLast(arg.article.authors[k]) = TrackedLast
         /\ Len(EntryInits(arg.article.authors[k])) > Len(TrackedInits)

\* ------------------------------------------------------------------------
\* Properties of the persisted state
\* ------------------------------------------------------------------------
\* C11: the state file is written at most once per run, in incremental mode
\* only, and only by the last step, after every author was processed and the
\* worksheets were written; a run that is not complete, aborted ones
\* included, leaves the file as the run found it.
C11_StateWrittenLast ==
    /\ []((runs > 0 /\ pc # "done") => file = file0)
    /\ [][file' # file =>
            /\ pc = "save" /\ pc' = "done"
            /\ settings.starting_date = <<>>
            /\ idx > Len(authors)
            /\ jdx > Len(authors)
            /\ sink[Meta] # NoSheet]_vars

\* an incremental run that marked identifiers seen and then aborted on a
\* worksheet write
C11_Witness ==
    /\ pc = "aborted"
    /\ abort = "APIError"
    /\ settings.starting_date = <<>>
    /\ seen # Seen0

\* C12: a state saved with last_run_utc = T and the sorted seen identifiers
\* S loads as exactly T and a seen set equal to S, whatever T and S are and
\* in whatever order S was built.
C12_StateRoundTrip ==
    pc = "loaded" =>
        /\ res = <<arg.T>>
        /\ state.last_run_utc = isoformat(arg.T)
        /\ seen = Range(arg.order)
        /\ Len(state.seen_pmids) = Cardinality(Range(arg.order))

\* a state with a time that is not midnight and identifiers added out of
\* order, one of them twice, was saved and loaded
C12_Witness ==
    /\ pc = "loaded"
    /\ arg.T % TicksPerDay # 0
    /\ arg.order = << <<"9">>, P100, <<"9">> >>
    /\ state.seen_pmids = << P100, <<"9">> >>

\* ------------------------------------------------------------------------
\* Properties of the date window
\* ------------------------------------------------------------------------
\* the last_run_utc of the state file the run found, Null if it has none
LastRun0 == IF file0.exists THEN Stored(file0).last_run_utc ELSE Null

\* the day of a time
DayOf(t) == t \div TicksPerDay

\* the settings give an end date that is before the start date
EndBeforeStart ==
    /\ settings.starting_date # <<>>
    /\ settings.ending_date # <<>>
    /\ settings.ending_date[1] < settings.starting_date[1]

\* C13: a manual end date before the manual start date is a configuration
\* error raised before any search request: the run is over and no query was
\* made with such a window.
C13_EndBeforeStartRejected ==
    (runs > 0 /\ EndBeforeStart) =>
        /\ pc = "aborted"
        /\ searchLog = <<>>

\* C14: in incremental mode the window ends on the current day; it starts
\* on the day of the stored last_run_utc, and without a state file it
\* starts 30 days before the current time with nothing seen.
C14_IncrementalWindow ==
    Incremental =>
        /\ maxdate = DayOf(now)
        /\ LastRun0 # Null => mindate = LastRun0[1]
        /\ ~file0.exists =>
             /\ mindate = DayOf(now - 30 * TicksPerDay)
             /\ Seen0 = {}
             /\ seen \subseteq Fetched

\* an incremental run without a state file that ran to its end and fetched
\* what the search returned
C14_Witness ==
    /\ Incremental
    /\ ~file0.exists
    /\ pc = "done"
    /\ Fetched = Pmids

\* ------------------------------------------------------------------------
\* Properties of the author loop
\* ------------------------------------------------------------------------
\* C15: a malformed record in an efetch response is dropped: it never ends
\* the run.
C15_MalformedRecordDropped == ~(pc = "aborted" /\ abort = "ParseError")

\* the roster has an author whose name is a single token
RosterHasSingleToken ==
    \E k \in 1..Len(authors) : build_search_name(authors[k].full_name) = ValueError

\* C16: with a single-token name anywhere in the roster the run makes no
\* search or detail request for any author and writes nothing.
C16_SingleTokenFatalBeforeRun ==
    (runs > 0 /\ RosterHasSingleToken) =>
        /\ pc \notin {"search", "fetch"}
        /\ searchLog = <<>>
        /\ fetchLog = <<>>
        /\ sink \in InitialSinks
        /\ file = file0

\* C17: the authors are searched in roster order, one at a time; an
\* identifier is given to efetch_details at most once, for the first author
\* whose search returned it; it is in at most one row of the combined
\* table, under that author.
C17_FetchedOnceFirstSighting ==
    /\ Len(fetchLog) = Len(searchLog)
    /\ Len(searchLog) \in {idx - 1, idx}
    /\ \A k \in 1..Len(searchLog) :
         /\ searchLog[k].query.author = build_search_name(authors[k].full_name)
         /\ \A p \in Range(fetchLog[k]) :
              /\ p \in Range(searchLog[k].idlist)
              /\ \A j \in 1..(k - 1) : p \notin Range(searchLog[j].idlist)
    /\ \A r1, r2 \in 1..Len(all_rows) :
         all_rows[r1].pmid = all_rows[r2].pmid => r1 = r2
    /\ \A r \in 1..Len(all_rows) :
         \E k \in 1..Len(fetchLog) :
            /\ authors[k].full_name = all_rows[r].tracked_author
            /\ all_rows[r].pmid \in Range(fetchLog[k])

\* a completed run in which both searches returned 102: it was fetched for
\* the first author, who does not match it, and is in no row although the
\* second author matches it
C17_Witness ==
    /\ pc = "done"
    /\ authors = <<Jane, Bob>>
    /\ P102 \in Range(fetchLog[1])
    /\ P102 \in Range(searchLog[2].idlist)
    /\ \A r \in 1..Len(all_rows) : all_rows[r].pmid # P102
    /\ all_rows # <<>>

\* ------------------------------------------------------------------------
\* Properties of the filter for an author without keywords
\* ------------------------------------------------------------------------
\* C20: for a tracked author with an empty keyword list, an article with at
\* least one affiliation string is rejected by the affiliation stage
\* whatever its author entries are; an accepted article has none.
C20_EmptyKeywordsNeverMatch ==
    (pc = "filtered" /\ arg.affiliations = <<>>) =>
        /\ AffiliationStrings # {} => res = <<"AFFILIATION_MISMATCH">>
        /\ res = <<"ACCEPTED">> => AffiliationStrings = {}

\* an article with an affiliation string and a matching author entry was
\* rejected for an author without keywords
C20_Witness ==
    /\ pc = "filtered"
    /\ arg.affiliations = <<>>
    /\ AffiliationStrings # {}
    /\ AuthorMatch(arg.article.authors, arg.full_name)
    /\ res = <<"AFFILIATION_MISMATCH">>

\* ------------------------------------------------------------------------
\* Properties of several runs
\* ------------------------------------------------------------------------
\* the time the Meta worksheet was last written at
MetaTime == sink[Meta][1][2]

\* C18: an identifier that a search of a completed incremental run returned
\* is not given to efetch_details and is in no row of a later incremental
\* run, whatever runs came in between; a later incremental run whose
\* searches return nothing else fetches nothing, and its table is empty
\* with the placeholder on every author's worksheet.
C18_NoRefetchAcrossRuns ==
    Incremental =>
        /\ Fetched \cap prev.returned = {}
        /\ \A r \in 1..Len(all_rows) : all_rows[r].pmid \notin prev.returned
        /\ (pc \in {"save", "done"} /\ Searched \subseteq prev.returned) =>
             /\ Fetched = {}
             /\ all_rows = <<>>
             /\ sink[Master] = <<FixedHeader>>
             /\ \A k \in 1..Len(authors) :
                  sink[authors[k].full_name] =
                      << <<"No publications found in this date window.">> >>

\* an incremental run, after a completed incremental run and a manual run
\* that left its rows in the Master worksheet, has searched for every
\* author, got the identifiers of the first run again and fetched nothing
C18_Witness ==
    /\ Incremental
    /\ pc = "loop"
    /\ idx > Len(authors)
    /\ prev.returned = {P101, P102}
    /\ Searched = {P101, P102}
    /\ Fetched = {}
    /\ MetaTime # prev.meta
    /\ Len(sink[Master]) > 1

\* C19: a completed incremental run stores the time taken at its start, the
\* one that gives the end of its window, and the window of a later
\* incremental run starts on the day the window of the last completed
\* incremental run ended.
C19_CommitIsRunStart ==
    /\ (Incremental /\ pc = "done") =>
         /\ Stored(file).last_run_utc = isoformat(now)
         /\ Stored(file).last_run_utc[1] = maxdate
    /\ (Incremental /\ prev.end # <<>>) => mindate = prev.end[1]

\* an incremental run that follows a completed incremental run which wrote
\* its Meta worksheet, and so saved its state, a day after it had started
C19_Witness ==
    /\ Incremental
    /\ prev.end # <<>>
    /\ prev.meta[1] > prev.end[1]
    /\ mindate = prev.end[1]
    /\ pc = "done"

====
